---- MODULE Spec2Model ----
(***************************************************************************)
(* Model of src/app.js: an HTTP relay that fetches the bikeshare station   *)
(* feed, turns it into a GeoJSON FeatureCollection and serves a cached     *)
(* copy, refetching when the copy is older than the refetch delay.         *)
(*                                                                         *)
(* The file holds the server twice (lines 1-108 and 110-220); the two      *)
(* copies differ only in host/port and parameter names, so one model       *)
(* covers both.                                                            *)
(***************************************************************************)
EXTENDS Integers, Sequences, FiniteSets, TLC

VARIABLES
    clock,            \* the value Date.now() returns at this moment
    ticks,            \* number of clock advances taken between handlers
    alive,            \* FALSE once an uncaught exception has ended the process
    lastFetchTimeMS,  \* app.js:18
    cachedStations,   \* app.js:19
    requests,         \* every request handled so far, in handling order
    fetches,          \* every https.get started so far, in starting order
    rawFeed,          \* the argument of a call of transformFeed on its own
    transformed       \* what that call returned

\* the state of a call of transformFeed on its own
tvars == <<rawFeed, transformed>>

vars == <<clock, ticks, alive, lastFetchTimeMS, cachedStations, requests, fetches,
          rawFeed, transformed>>

----------------------------------------------------------------------------
(* Program constants                                                       *)

millis == 1000
refetchDelaySeconds == 30
refetchIntervalMS == refetchDelaySeconds * millis

----------------------------------------------------------------------------
(* Bounds of the model                                                     *)

MaxRequests == 3     \* requests handled in one run
MaxTicks == 2        \* clock advances between handlers in one run

\* Date.now() at process start.  1000 is the clock of the spec's example
\* scenario; 31000 stands for any clock later than the refetch interval.
InitClocks == {1000, 31000}
\* How far the clock moves between two handlers.
TickSteps == {1, refetchIntervalMS}
\* How far the clock moves between the two now() calls of one handler.
HandlerDelays == {0, 1}

Urls == {"/", "/other"}
NoOrigin == "undefined"
Origins == {NoOrigin, "http://a.example"}
\* an Origin header with an empty value
EmptyOrigin == ""
AllOrigins == Origins \cup {EmptyOrigin, "http://b.example"}

----------------------------------------------------------------------------
(* JavaScript values.  Leaves are written as their JSON literals; objects  *)
(* are records; arrays are sequences.                                      *)

Null == [type |-> "null"]
Undefined == "undefined"

\* obj.p : the value of property p, undefined when obj has no such property
Get(obj, p) == IF p \in DOMAIN obj THEN obj[p] ELSE Undefined

StationA == [id |-> "1", longitude |-> "-122.4", latitude |-> "37.8"]
StationNoLon == [id |-> "3", latitude |-> "37.5"]

\* Bodies the upstream feed may answer with.
BodyOne == "{\"stationBeanList\":[{\"id\":1,\"longitude\":-122.4,\"latitude\":37.8}]}"
\* two stations, the first without a longitude
BodyTwo == "{\"stationBeanList\":[{\"id\":3,\"latitude\":37.5},{\"id\":1,\"longitude\":-122.4,\"latitude\":37.8}]}"
BodyNullStation == "{\"stationBeanList\":[null]}"
BodyNoList == "{\"error\":\"down\"}"
BodyMalformed == "<html>Service Unavailable</html>"

Bodies == {BodyOne, BodyTwo, BodyNullStation, BodyNoList, BodyMalformed}

\* JSON.parse throws a SyntaxError on text that is not JSON.
JSONparseThrows(body) == body = BodyMalformed

\* JSON.parse on the bodies above.
JSONparse(body) ==
    CASE body = BodyOne -> [stationBeanList |-> <<StationA>>]
      [] body = BodyTwo -> [stationBeanList |-> <<StationNoLon, StationA>>]
      [] body = BodyNullStation -> [stationBeanList |-> <<Null>>]
      [] body = BodyNoList -> [error |-> "\"down\""]

----------------------------------------------------------------------------
(* Feed Transformer                                                        *)

\* station.longitude on null is a TypeError
transformStationThrows(station) == station = Null

\* Variant: latitude before longitude.
transformStationLatLon(station) ==
    [type |-> "Feature",
     geometry |-> [type |-> "Point",
                   coordinates |-> <<Get(station, "latitude"), Get(station, "longitude")>>],
     properties |-> station]

\* Variant: only the id is kept as properties.
transformStationStripsProperties(station) ==
    [type |-> "Feature",
     geometry |-> [type |-> "Point",
                   coordinates |-> <<Get(station, "longitude"), Get(station, "latitude")>>],
     properties |-> [id |-> Get(station, "id")]]

transformStation(station) ==
    [type |-> "Feature",
     geometry |-> [type |-> "Point",
                   coordinates |-> <<Get(station, "longitude"), Get(station, "latitude")>>],
     properties |-> station]

\* undefined.map(...) is a TypeError, and so is a throwing transformStation
transformFeedThrows(stationFeedData) ==
    IF "stationBeanList" \notin DOMAIN stationFeedData
    THEN TRUE
    ELSE \E i \in 1..Len(stationFeedData.stationBeanList) :
             transformStationThrows(stationFeedData.stationBeanList[i])

\* Variant: the features come out in reverse order.
transformFeedReversed(stationFeedData) ==
    [type |-> "FeatureCollection",
     features |-> [i \in 1..Len(stationFeedData.stationBeanList) |->
                      transformStation(stationFeedData.stationBeanList[
                          Len(stationFeedData.stationBeanList) + 1 - i])]]

transformFeed(stationFeedData) ==
    [type |-> "FeatureCollection",
     features |-> [i \in 1..Len(stationFeedData.stationBeanList) |->
                      transformStation(stationFeedData.stationBeanList[i])]]

----------------------------------------------------------------------------
(* Responses                                                               *)

\* JSON.stringify(json, null, 3): the document sent.  An undefined array
\* element is written as null; everything else is written as it is.
StringifyElement(v) == IF v = Undefined THEN "null" ELSE v

StringifyFeature(f) ==
    [type |-> f.type,
     geometry |-> [type |-> f.geometry.type,
                   coordinates |-> [i \in 1..Len(f.geometry.coordinates) |->
                                       StringifyElement(f.geometry.coordinates[i])]],
     properties |-> f.properties]

JSONstringify(json) ==
    IF json = Null
    THEN [indent |-> 3, document |-> Null]
    ELSE [indent |-> 3,
          document |-> [type |-> json.type,
                        features |-> [i \in 1..Len(json.features) |->
                                         StringifyFeature(json.features[i])]]]

\* Variant: every answer allows every origin.
AllowOriginAny(origin) == "*"

\* request.headers.origin || '*' : undefined and the empty string are falsy
AllowOrigin(origin) == IF origin \in {NoOrigin, EmptyOrigin} THEN "*" ELSE origin

sendJsonResponse(request, json) ==
    [statusCode |-> 200,
     headers |-> [ContentType |-> "application/json",
                  AccessControlAllowOrigin |-> AllowOrigin(request.origin)],
     body |-> JSONstringify(json)]

NotFoundResponse ==
    [statusCode |-> 404,
     headers |-> [none |-> TRUE],
     body |-> [text |-> "NOT FOUND"]]

----------------------------------------------------------------------------
(* State machine                                                           *)

Init ==
    /\ clock \in InitClocks
    /\ ticks = 0
    /\ alive = TRUE
    /\ lastFetchTimeMS = 0
    /\ cachedStations = Null
    /\ requests = << >>
    /\ fetches = << >>
    /\ rawFeed = Null
    /\ transformed = Null

\* Fetches whose 'end' handler has run to completion.
NumDone == Cardinality({f \in 1..Len(fetches) : fetches[f].status = "done"})

\* Variants of the staleness test: ">=" for ">", the delay left in seconds,
\* and no delay at all.
IsStaleAtOrAfter(nowMS, last) == nowMS >= last + (refetchDelaySeconds * millis)
IsStaleSeconds(nowMS, last) == nowMS > last + refetchDelaySeconds
IsStaleNoDelay(nowMS, last) == nowMS > last

\* nowMS > lastFetchTimeMS + (refetchDelaySeconds * millis)
IsStale(nowMS, last) == nowMS > last + (refetchDelaySeconds * millis)

\* Time passes between two handlers.
Tick(d) ==
    /\ alive
    /\ ticks < MaxTicks
    /\ clock' = clock + d
    /\ ticks' = ticks + 1
    /\ UNCHANGED <<alive, lastFetchTimeMS, cachedStations, requests, fetches>>
    /\ UNCHANGED tvars

\* Variant: the 404 branch falls through to the time stamp.
HandleNotFoundStamps(url) ==
    /\ alive
    /\ Len(requests) < MaxRequests
    /\ url # "/"
    /\ requests' = Append(requests,
           [url |-> url, origin |-> NoOrigin, at |-> clock, branch |-> "notfound",
            fetch |-> 0, doneBefore |-> NumDone,
            responses |-> <<NotFoundResponse>>])
    /\ lastFetchTimeMS' = clock
    /\ UNCHANGED <<clock, ticks, alive, cachedStations, fetches>>
    /\ UNCHANGED tvars

\* The request handler, url other than '/'.  No header is read.
HandleNotFound(url) ==
    /\ alive
    /\ Len(requests) < MaxRequests
    /\ url # "/"
    /\ requests' = Append(requests,
           [url |-> url, origin |-> NoOrigin, at |-> clock, branch |-> "notfound",
            fetch |-> 0, doneBefore |-> NumDone,
            responses |-> <<NotFoundResponse>>])
    /\ UNCHANGED <<clock, ticks, alive, lastFetchTimeMS, cachedStations, fetches>>
    /\ UNCHANGED tvars

\* Variant: the stale branch starts the fetch and leaves the time stamp alone.
HandleStaleNoStamp(origin, d) ==
    /\ alive
    /\ Len(requests) < MaxRequests
    /\ IsStale(clock, lastFetchTimeMS)
    /\ fetches' = Append(fetches,
           [request |-> Len(requests) + 1, startMS |-> clock, stampMS |-> clock + d,
            status |-> "inflight", body |-> ""])
    /\ clock' = clock + d
    /\ requests' = Append(requests,
           [url |-> "/", origin |-> origin, at |-> clock, branch |-> "stale",
            fetch |-> Len(fetches) + 1, doneBefore |-> NumDone,
            responses |-> << >>])
    /\ UNCHANGED <<ticks, alive, cachedStations, lastFetchTimeMS>>
    /\ UNCHANGED tvars

\* Variant: the stale branch stamps the time it compared, not a new reading.
HandleStaleStampsCompared(origin, d) ==
    /\ alive
    /\ Len(requests) < MaxRequests
    /\ IsStale(clock, lastFetchTimeMS)
    /\ fetches' = Append(fetches,
           [request |-> Len(requests) + 1, startMS |-> clock, stampMS |-> clock,
            status |-> "inflight", body |-> ""])
    /\ lastFetchTimeMS' = clock
    /\ clock' = clock + d
    /\ requests' = Append(requests,
           [url |-> "/", origin |-> origin, at |-> clock, branch |-> "stale",
            fetch |-> Len(fetches) + 1, doneBefore |-> NumDone,
            responses |-> << >>])
    /\ UNCHANGED <<ticks, alive, cachedStations>>
    /\ UNCHANGED tvars

\* The request handler, url '/', cache too old: start a fetch, stamp the time.
\* d is the time that passes between now() of line 91 and now() of line 99;
\* https.get is called somewhere in between, no earlier than startMS and no
\* later than stampMS.
HandleStale(origin, d) ==
    /\ alive
    /\ Len(requests) < MaxRequests
    /\ IsStale(clock, lastFetchTimeMS)
    /\ fetches' = Append(fetches,
           [request |-> Len(requests) + 1, startMS |-> clock, stampMS |-> clock + d,
            status |-> "inflight", body |-> ""])
    /\ lastFetchTimeMS' = clock + d
    /\ clock' = clock + d
    /\ requests' = Append(requests,
           [url |-> "/", origin |-> origin, at |-> clock, branch |-> "stale",
            fetch |-> Len(fetches) + 1, doneBefore |-> NumDone,
            responses |-> << >>])
    /\ UNCHANGED <<ticks, alive, cachedStations>>
    /\ UNCHANGED tvars

\* Variant: the fresh branch also stamps the time.
HandleFreshStamps(origin) ==
    /\ alive
    /\ Len(requests) < MaxRequests
    /\ ~IsStale(clock, lastFetchTimeMS)
    /\ requests' = Append(requests,
           [url |-> "/", origin |-> origin, at |-> clock, branch |-> "fresh",
            fetch |-> 0, doneBefore |-> NumDone,
            responses |-> <<sendJsonResponse([origin |-> origin], cachedStations)>>])
    /\ lastFetchTimeMS' = clock
    /\ UNCHANGED <<clock, ticks, alive, cachedStations, fetches>>
    /\ UNCHANGED tvars

\* The request handler, url '/', cache young enough: answer from the cache.
HandleFresh(origin) ==
    /\ alive
    /\ Len(requests) < MaxRequests
    /\ ~IsStale(clock, lastFetchTimeMS)
    /\ requests' = Append(requests,
           [url |-> "/", origin |-> origin, at |-> clock, branch |-> "fresh",
            fetch |-> 0, doneBefore |-> NumDone,
            responses |-> <<sendJsonResponse([origin |-> origin], cachedStations)>>])
    /\ UNCHANGED <<clock, ticks, alive, lastFetchTimeMS, cachedStations, fetches>>
    /\ UNCHANGED tvars

\* transformFeed(JSON.parse(body)) throws
FetchedBodyThrows(body) ==
    IF JSONparseThrows(body) THEN TRUE ELSE transformFeedThrows(JSONparse(body))

\* Variant: the callback answers before it stores the stations.
FetchEndAnswersOldCache(f, body) ==
    /\ alive
    /\ fetches[f].status = "inflight"
    /\ ~FetchedBodyThrows(body)
    /\ LET stations == transformFeed(JSONparse(body))
           r == fetches[f].request
       IN  /\ cachedStations' = stations
           /\ requests' = [requests EXCEPT ![r].responses =
                  Append(@, sendJsonResponse(requests[r], cachedStations))]
    /\ fetches' = [fetches EXCEPT ![f].status = "done", ![f].body = body]
    /\ UNCHANGED <<clock, ticks, alive, lastFetchTimeMS>>
    /\ UNCHANGED tvars

\* Variant: the time stamp is taken when the fetch completes.
FetchEndStamps(f, body) ==
    /\ alive
    /\ fetches[f].status = "inflight"
    /\ ~FetchedBodyThrows(body)
    /\ LET stations == transformFeed(JSONparse(body))
           r == fetches[f].request
       IN  /\ cachedStations' = stations
           /\ requests' = [requests EXCEPT ![r].responses =
                  Append(@, sendJsonResponse(requests[r], stations))]
    /\ fetches' = [fetches EXCEPT ![f].status = "done", ![f].body = body]
    /\ lastFetchTimeMS' = clock
    /\ UNCHANGED <<clock, ticks, alive>>
    /\ UNCHANGED tvars

\* Variant: the callback stores the stations and sends nothing.
FetchEndNoAnswer(f, body) ==
    /\ alive
    /\ fetches[f].status = "inflight"
    /\ ~FetchedBodyThrows(body)
    /\ cachedStations' = transformFeed(JSONparse(body))
    /\ fetches' = [fetches EXCEPT ![f].status = "done", ![f].body = body]
    /\ UNCHANGED <<clock, ticks, alive, lastFetchTimeMS, requests>>
    /\ UNCHANGED tvars

\* The 'end' handler of fetchStations, body parsed and transformed: the
\* callback of the request handler stores the stations and answers.
FetchEnd(f, body) ==
    /\ alive
    /\ fetches[f].status = "inflight"
    /\ ~FetchedBodyThrows(body)
    /\ LET stations == transformFeed(JSONparse(body))
           r == fetches[f].request
       IN  /\ cachedStations' = stations
           /\ requests' = [requests EXCEPT ![r].responses =
                  Append(@, sendJsonResponse(requests[r], stations))]
    /\ fetches' = [fetches EXCEPT ![f].status = "done", ![f].body = body]
    /\ UNCHANGED <<clock, ticks, alive, lastFetchTimeMS>>
    /\ UNCHANGED tvars

\* Variant: the exception is caught and the callback is given null.
FetchThrowClearsCache(f, body) ==
    /\ alive
    /\ fetches[f].status = "inflight"
    /\ FetchedBodyThrows(body)
    /\ fetches' = [fetches EXCEPT ![f].status = "threw"]
    /\ cachedStations' = Null
    /\ requests' = [requests EXCEPT ![fetches[f].request].responses =
           Append(@, sendJsonResponse(requests[fetches[f].request], Null))]
    /\ UNCHANGED <<clock, ticks, alive, lastFetchTimeMS>>
    /\ UNCHANGED tvars

\* The 'end' handler of fetchStations, JSON.parse or transformFeed throws:
\* nothing catches the exception, which ends the process.
FetchThrow(f, body) ==
    /\ alive
    /\ fetches[f].status = "inflight"
    /\ FetchedBodyThrows(body)
    /\ fetches' = [fetches EXCEPT ![f].status = "threw"]
    /\ alive' = FALSE
    /\ UNCHANGED <<clock, ticks, lastFetchTimeMS, cachedStations, requests>>
    /\ UNCHANGED tvars

\* Variant: a failed connection rolls the time stamp back.
FetchNetworkErrorRollsBack(f, crash) ==
    /\ alive
    /\ fetches[f].status = "inflight"
    /\ fetches' = [fetches EXCEPT ![f].status = "neterror"]
    /\ alive' = ~crash
    /\ lastFetchTimeMS' = 0
    /\ UNCHANGED <<clock, ticks, cachedStations, requests>>
    /\ UNCHANGED tvars

\* The upstream connection fails.  fetchStations listens for neither 'error'
\* nor 'aborted': depending on where the failure surfaces, the 'error' event
\* of the client request goes unhandled and ends the process, or the
\* response is dropped and 'end' never fires.
FetchNetworkError(f, crash) ==
    /\ alive
    /\ fetches[f].status = "inflight"
    /\ fetches' = [fetches EXCEPT ![f].status = "neterror"]
    /\ alive' = ~crash
    /\ UNCHANGED <<clock, ticks, lastFetchTimeMS, cachedStations, requests>>
    /\ UNCHANGED tvars

Next ==
    \/ \E d \in TickSteps : Tick(d)
    \/ \E url \in Urls : HandleNotFound(url)
    \/ \E origin \in Origins, d \in HandlerDelays : HandleStale(origin, d)
    \/ \E origin \in Origins : HandleFresh(origin)
    \/ \E f \in 1..Len(fetches), body \in Bodies : FetchEnd(f, body)
    \/ \E f \in 1..Len(fetches), body \in Bodies : FetchThrow(f, body)
    \/ \E f \in 1..Len(fetches), crash \in BOOLEAN : FetchNetworkError(f, crash)

Spec == Init /\ [][Next]_vars

TypeOK ==
    /\ clock \in Nat
    /\ ticks \in 0..MaxTicks
    /\ alive \in BOOLEAN
    /\ lastFetchTimeMS \in Nat
    /\ Len(requests) <= MaxRequests
    /\ Len(fetches) <= Len(requests)

----------------------------------------------------------------------------
(* The server with every kind of Origin header, upstream always answering  *)
(* the one-station feed and the two now() calls of a handler agreeing.     *)

NextHeaders ==
    \/ \E d \in TickSteps : Tick(d)
    \/ \E origin \in AllOrigins : HandleStale(origin, 0)
    \/ \E origin \in AllOrigins : HandleFresh(origin)
    \/ \E f \in 1..Len(fetches) : FetchEnd(f, BodyOne)

SpecHeaders == Init /\ [][NextHeaders]_vars

----------------------------------------------------------------------------
(* The server with an upstream that answers every fetch, sooner or later,  *)
(* with the one-station feed, and requests without an Origin header.       *)

\* The 'end' handler of fetch f runs.
FetchCompletes(f) ==
    /\ f \in 1..Len(fetches)
    /\ FetchEnd(f, BodyOne)

NextLive ==
    \/ \E d \in TickSteps : Tick(d)
    \/ \E url \in Urls : HandleNotFound(url)
    \/ \E d \in HandlerDelays : HandleStale(NoOrigin, d)
    \/ HandleFresh(NoOrigin)
    \/ \E f \in 1..MaxRequests : FetchCompletes(f)

SpecLive ==
    /\ Init
    /\ [][NextLive]_vars
    /\ \A f \in 1..MaxRequests : WF_vars(FetchCompletes(f))

----------------------------------------------------------------------------
(* transformFeed called on its own, on every feed of up to MaxStations     *)
(* stations.                                                               *)

MaxStations == 3

StationNoLat == [id |-> "5", longitude |-> "-122.1"]
\* longitude is a string, not a number
StationTextLon == [id |-> "4", longitude |-> "\"west\"", latitude |-> "37.8"]

Stations == {StationA, StationNoLon, StationNoLat, StationTextLon, Null}

Feeds ==
    {[error |-> "\"down\""]}
    \cup {[stationBeanList |-> list] :
             list \in UNION {[1..n -> Stations] : n \in 0..MaxStations}}

\* what a call that threw leaves behind
Threw == [threw |-> "TypeError"]

InitTransform ==
    /\ clock \in InitClocks
    /\ ticks = 0
    /\ alive = TRUE
    /\ lastFetchTimeMS = 0
    /\ cachedStations = Null
    /\ requests = << >>
    /\ fetches = << >>
    /\ rawFeed \in Feeds
    /\ transformed = Null

\* transformFeed(rawFeed)
TransformCall ==
    /\ transformed = Null
    /\ transformed' = IF transformFeedThrows(rawFeed) THEN Threw ELSE transformFeed(rawFeed)
    /\ UNCHANGED <<clock, ticks, alive, lastFetchTimeMS, cachedStations, requests,
                   fetches, rawFeed>>

NextTransform == TransformCall

SpecTransform == InitTransform /\ [][NextTransform]_vars

----------------------------------------------------------------------------
(* Vocabulary of the properties                                            *)

RootRequests == {r \in 1..Len(requests) : requests[r].url = "/"}
StaleRequests == {r \in RootRequests : requests[r].branch = "stale"}
FreshRequests == {r \in RootRequests : requests[r].branch = "fresh"}

\* This step is a run of the request handler; NewRequest is the request it ran for.
Handled == Len(requests') = Len(requests) + 1
NewRequest == requests'[Len(requests')]
HandledRoot == Handled /\ NewRequest.url = "/"

\* Some fetch has been started and has neither ended nor failed.
AnyInflight == \E f \in 1..Len(fetches) : fetches[f].status = "inflight"

\* This step starts a fetch.
FetchStarted == Len(fetches') = Len(fetches) + 1

\* Fetch f ends successfully in this step.
Completes(f) == fetches[f].status = "inflight" /\ fetches'[f].status = "done"
\* Fetch f fails in this step.
Fails(f) == fetches[f].status = "inflight" /\ fetches'[f].status \in {"threw", "neterror"}

\* The answer the fresh branch gives for the cache as it is before the step.
AnsweredFromCache ==
    /\ NewRequest.branch = "fresh"
    /\ Len(NewRequest.responses) = 1
    /\ NewRequest.responses[1].statusCode = 200
    /\ NewRequest.responses[1].body = JSONstringify(cachedStations)

----------------------------------------------------------------------------
\* C1: any two upstream fetch initiations are more than 30000 ms of clock
\* time apart: the later one is started more than 30000 ms after the time
\* stamp taken for the earlier one, hence after its initiation.
C1_AtMostOneFetchPerInterval ==
    \A i, j \in 1..Len(fetches) :
        i < j => /\ fetches[j].startMS > fetches[i].stampMS + 30000
                 /\ fetches[i].startMS <= fetches[i].stampMS

C1_Witness == Len(fetches) >= 2

----------------------------------------------------------------------------
\* A burst: requests i..j to '/', handled within 1 ms of each other, with no
\* fetch completing between the first and the last.
Burst(i, j) ==
    /\ i \in RootRequests /\ j \in RootRequests /\ i < j
    /\ requests[j].at - requests[i].at <= 1
    /\ requests[j].doneBefore = requests[i].doneBefore

FetchesStartedIn(i, j) == Cardinality({r \in StaleRequests : i <= r /\ r <= j})

\* C2 as stated: every burst of requests to '/' starts exactly one fetch.
C2_Original ==
    \A i, j \in 1..Len(requests) : Burst(i, j) => FetchesStartedIn(i, j) = 1

\* C2 as amended: a burst of requests to '/' whose first request finds the
\* cache stale starts exactly one fetch, and any burst starts at most one.
C2_NoRefetchStorm ==
    \A i, j \in 1..Len(requests) :
        Burst(i, j) => /\ FetchesStartedIn(i, j) <= 1
                       /\ requests[i].branch = "stale" => FetchesStartedIn(i, j) = 1

C2_Witness ==
    \E i, j \in 1..Len(requests) :
        /\ Burst(i, j) /\ j >= i + 2
        /\ requests[i].branch = "stale"
        /\ \A r \in (i+1)..j : requests[r].branch = "fresh"

----------------------------------------------------------------------------
\* C3 as stated: a request to '/' handled while a fetch is in flight never
\* starts a fetch; it is answered at once from the cache as it is then.
C3_Original ==
    [][(HandledRoot /\ AnyInflight) => (~FetchStarted /\ AnsweredFromCache)]_vars

\* C3 as amended: a request to '/' handled while a fetch is in flight and no
\* later than 30000 ms after the last time stamp never starts a fetch; it is
\* answered at once from the cache as it is then (null before any fetch has
\* completed), and the fetches in flight stay in flight.
C3_InflightServedFromCache ==
    [][(HandledRoot /\ AnyInflight /\ clock <= lastFetchTimeMS + 30000)
          => (~FetchStarted /\ AnsweredFromCache /\ fetches' = fetches
              /\ cachedStations' = cachedStations)]_vars

\* A request was answered from a cache a completed fetch had filled, while a
\* later fetch was, and still is, in flight.
C3_Witness ==
    \E r \in FreshRequests, f \in 1..Len(fetches) :
        /\ fetches[f].status = "inflight"
        /\ fetches[f].request < r
        /\ requests[r].responses[1].body.document # Null

----------------------------------------------------------------------------
\* C4: a request to '/' is stale, and starts a fetch, exactly when its time is
\* more than 30000 ms after the last time stamp: at the stamp plus 30000 it
\* is answered from the cache, at the stamp plus 30001 it starts a fetch.
C4_StalenessBoundary ==
    [][HandledRoot =>
          /\ (clock > lastFetchTimeMS + 30000) <=> (NewRequest.branch = "stale")
          /\ (NewRequest.branch = "stale") <=> FetchStarted
          /\ clock = lastFetchTimeMS + 30000 => (~FetchStarted /\ AnsweredFromCache)
          /\ clock = lastFetchTimeMS + 30001 =>
                 (FetchStarted /\ NewRequest.responses = << >>)]_vars

\* One request handled exactly 30000 ms after a time stamp and answered from
\* the cache, another handled 30001 ms after it and starting a fetch.
C4_Witness ==
    \E f \in 1..Len(fetches), r \in FreshRequests, q \in StaleRequests :
        /\ requests[r].at = fetches[f].stampMS + 30000
        /\ requests[q].at = fetches[f].stampMS + 30001
        /\ fetches[f].request < r /\ r < q

----------------------------------------------------------------------------
\* C5: a request that took the stale branch has an answer only once its own
\* fetch has completed; the answer is the transform of the feed that fetch
\* returned, and at the moment of the answer the cache holds that value.
C5_StaleAnsweredWithOwnFetch ==
    /\ [](\A r \in StaleRequests :
            requests[r].responses # << >> =>
               /\ fetches[requests[r].fetch].status = "done"
               /\ fetches[requests[r].fetch].request = r
               /\ Len(requests[r].responses) = 1
               /\ requests[r].responses[1].body =
                      JSONstringify(transformFeed(JSONparse(fetches[requests[r].fetch].body))))
    /\ [][\A f \in 1..Len(fetches) :
            Completes(f) =>
               /\ cachedStations' = transformFeed(JSONparse(fetches'[f].body))
               /\ requests'[fetches[f].request].responses
                      = <<sendJsonResponse(requests[fetches[f].request], cachedStations')>>
               /\ \A r \in 1..Len(requests) :
                      r # fetches[f].request => requests'[r] = requests[r]]_vars

\* Two overlapping fetches completed in the reverse of their starting order,
\* with different feeds, and both requests are answered.
C5_Witness ==
    \E f, g \in 1..Len(fetches) :
        /\ f < g
        /\ fetches[f].status = "done" /\ fetches[g].status = "done"
        /\ fetches[f].body # fetches[g].body
        /\ requests[fetches[f].request].doneBefore = 0
        /\ requests[fetches[g].request].doneBefore = 0
        /\ cachedStations = transformFeed(JSONparse(fetches[f].body))
        /\ requests[fetches[f].request].responses # << >>
        /\ requests[fetches[g].request].responses # << >>

----------------------------------------------------------------------------
\* C6: a request to '/' handled no later than 30000 ms after the last time
\* stamp is answered in the same step with the cache as it is (null when no
\* fetch has completed); the step starts no fetch and changes neither the
\* time stamp nor the cache.
C6_FreshBranchFrame ==
    [][(HandledRoot /\ clock <= lastFetchTimeMS + 30000)
          => /\ AnsweredFromCache
             /\ NewRequest.fetch = 0
             /\ fetches' = fetches
             /\ lastFetchTimeMS' = lastFetchTimeMS
             /\ cachedStations' = cachedStations]_vars

\* One request answered from the empty cache, another from a filled one.
C6_Witness ==
    \E r, q \in FreshRequests :
        /\ requests[r].responses[1].body.document = Null
        /\ requests[q].responses[1].body.document # Null

----------------------------------------------------------------------------
\* Request r is handled with the cache in its initial state: no request
\* before it took the stale branch.
InInitialState(r) == \A q \in 1..(r - 1) : requests[q].branch # "stale"

\* The FeatureCollection of the feed with the single station
\* {id:1, longitude:-122.4, latitude:37.8}.
ExampleDocument ==
    [type |-> "FeatureCollection",
     features |-> <<[type |-> "Feature",
                     geometry |-> [type |-> "Point", coordinates |-> <<"-122.4", "37.8">>],
                     properties |-> [id |-> "1", longitude |-> "-122.4", latitude |-> "37.8"]]>>]

ExampleAnswered(r) ==
    (requests[r].branch = "stale" /\ fetches[requests[r].fetch].status = "done"
        /\ fetches[requests[r].fetch].body = BodyOne)
    => /\ Len(requests[r].responses) = 1
       /\ requests[r].responses[1].statusCode = 200
       /\ requests[r].responses[1].body.document = ExampleDocument

----------------------------------------------------------------------------
Failed(f) == fetches[f].status \in {"threw", "neterror"}

----------------------------------------------------------------------------
\* C9: a request whose url is not '/' is answered 404 'NOT FOUND'; the step
\* starts no fetch and changes neither the time stamp nor the cache.
C9_UnknownRoute ==
    [][(Handled /\ NewRequest.url # "/")
          => /\ Len(NewRequest.responses) = 1
             /\ NewRequest.responses[1].statusCode = 404
             /\ NewRequest.responses[1].body = [text |-> "NOT FOUND"]
             /\ NewRequest.fetch = 0
             /\ fetches' = fetches
             /\ lastFetchTimeMS' = lastFetchTimeMS
             /\ cachedStations' = cachedStations]_vars

\* A request to another url was handled while the cache, filled by an
\* earlier fetch, was stale.
C9_Witness ==
    \E r \in 1..Len(requests), f \in 1..Len(fetches) :
        /\ requests[r].url = "/other"
        /\ fetches[f].request < r
        /\ \A g \in 1..Len(fetches) :
               fetches[g].request < r => requests[r].at > fetches[g].stampMS + 30000

----------------------------------------------------------------------------
\* C10: the cache is null exactly as long as no fetch has completed; a
\* non-null cache is the transform of the feed of a completed fetch; it
\* never goes back to null; only a step that completes a fetch changes it.
C10_CacheEntry ==
    /\ [](cachedStations = Null <=> NumDone = 0)
    /\ [](cachedStations # Null =>
             \E f \in 1..Len(fetches) :
                 /\ fetches[f].status = "done"
                 /\ cachedStations = transformFeed(JSONparse(fetches[f].body)))
    /\ [][cachedStations # Null => cachedStations' # Null]_vars
    /\ [][cachedStations' # cachedStations =>
             \E f \in 1..Len(fetches) : Completes(f)]_vars

\* The cache was filled and a later fetch has failed.
C10_Witness ==
    /\ cachedStations # Null
    /\ \E f, g \in 1..Len(fetches) : f < g /\ fetches[f].status = "done" /\ Failed(g)

----------------------------------------------------------------------------
\* The call of transformFeed has returned a FeatureCollection.
Returned == transformed # Null /\ transformed # Threw

\* C11: the features are as many as the stations of stationBeanList, and the
\* i-th feature is built from the i-th station.
C11_OneToOneInOrder ==
    Returned =>
        /\ Len(transformed.features) = Len(rawFeed.stationBeanList)
        /\ \A i \in 1..Len(rawFeed.stationBeanList) :
               transformed.features[i].properties = rawFeed.stationBeanList[i]

\* Three stations, no two neighbours alike, were transformed.
C11_Witness ==
    /\ Returned
    /\ Len(transformed.features) = 3
    /\ rawFeed.stationBeanList[1] # rawFeed.stationBeanList[2]
    /\ rawFeed.stationBeanList[2] # rawFeed.stationBeanList[3]
    /\ rawFeed.stationBeanList[1] # rawFeed.stationBeanList[3]

----------------------------------------------------------------------------
\* station.longitude, station.latitude as the source reads them
LongitudeOf(station) ==
    IF "longitude" \in DOMAIN station THEN station.longitude ELSE "undefined"
LatitudeOf(station) ==
    IF "latitude" \in DOMAIN station THEN station.latitude ELSE "undefined"

\* C12: every feature has type "Feature", a geometry of type "Point" with
\* coordinates [longitude, latitude] of its station, in that order, and the
\* station itself, all fields unchanged, as properties.
C12_FeatureShape ==
    Returned =>
        /\ transformed.type = "FeatureCollection"
        /\ \A i \in 1..Len(transformed.features) :
               LET feature == transformed.features[i]
                   station == rawFeed.stationBeanList[i]
               IN  /\ feature.type = "Feature"
                   /\ feature.geometry.type = "Point"
                   /\ Len(feature.geometry.coordinates) = 2
                   /\ feature.geometry.coordinates[1] = LongitudeOf(station)
                   /\ feature.geometry.coordinates[2] = LatitudeOf(station)
                   /\ feature.properties = station
                   /\ DOMAIN feature = {"type", "geometry", "properties"}

\* The station of the spec's example came out as the second of two features.
C12_Witness ==
    /\ Returned
    /\ Len(transformed.features) >= 2
    /\ transformed.features[2].geometry.coordinates = <<"-122.4", "37.8">>
    /\ transformed.features[2].properties = StationA

----------------------------------------------------------------------------
\* The number literals of the feeds.
Numbers == {"-122.4", "-122.1", "37.8", "37.5"}

HasNumericCoordinates(station) ==
    /\ "longitude" \in DOMAIN station /\ station.longitude \in Numbers
    /\ "latitude" \in DOMAIN station /\ station.latitude \in Numbers

\* C13: the call fails exactly when the feed has no stationBeanList or some
\* station has no numeric longitude or latitude.
C13_Original ==
    transformed # Null =>
        (transformed = Threw <=>
            IF "stationBeanList" \notin DOMAIN rawFeed
            THEN TRUE
            ELSE \E i \in 1..Len(rawFeed.stationBeanList) :
                     ~HasNumericCoordinates(rawFeed.stationBeanList[i]))

----------------------------------------------------------------------------
\* The headers of every answer to a request to '/', given what the answer
\* allows for the Origin header of that request.
AnswersCarry(allowed(_)) ==
    \A r \in RootRequests :
        \A k \in 1..Len(requests[r].responses) :
            /\ requests[r].responses[k].statusCode = 200
            /\ requests[r].responses[k].headers.ContentType = "application/json"
            /\ requests[r].responses[k].headers.AccessControlAllowOrigin
                   = allowed(requests[r].origin)

EchoIfPresent(origin) == IF origin = "undefined" THEN "*" ELSE origin
EchoIfNonEmpty(origin) == IF origin = "undefined" \/ origin = "" THEN "*" ELSE origin

\* C15 as stated: every answer to a request to '/' has status 200,
\* Content-Type application/json and Access-Control-Allow-Origin equal to the
\* Origin header of that request when it has one, '*' otherwise.
C15_Original == AnswersCarry(EchoIfPresent)

\* C15 as amended: ... equal to the Origin header of that request when it
\* has one that is not empty, '*' otherwise.
C15_ResponseHeaders == AnswersCarry(EchoIfNonEmpty)

\* Two requests with different origins were pending at the same time and
\* both are answered, the later one first; a third, with an empty Origin
\* header, was answered from the cache.
C15_Witness ==
    \E r, q \in StaleRequests, e \in FreshRequests :
        /\ r < q
        /\ requests[q].doneBefore = 0
        /\ requests[r].origin = "http://a.example"
        /\ requests[q].origin = "http://b.example"
        /\ requests[r].responses # << >> /\ requests[q].responses # << >>
        /\ cachedStations # Null
        /\ requests[e].origin = ""

----------------------------------------------------------------------------
\* This step is the stale branch of the request handler.
HandledStale == HandledRoot /\ NewRequest.branch = "stale"

\* A fetch completion leaves the time stamp alone.
CompletionKeepsStamp ==
    \A f \in 1..Len(fetches) : Completes(f) => lastFetchTimeMS' = lastFetchTimeMS

\* C16 as stated: the stale branch sets the time stamp, in its own step, to
\* exactly the time it compared; fetch completion does not change the stamp.
C16_Original ==
    [][/\ HandledStale => (lastFetchTimeMS' = clock /\ lastFetchTimeMS' = NewRequest.at)
       /\ CompletionKeepsStamp]_vars

\* C16 as amended: the stale branch sets the time stamp, in its own step, to
\* a new reading of the clock, taken after the fetch is started: the stamp is
\* the clock at the end of the step, at or after the time compared.  The
\* fetch started is still in flight at the end of the step, and fetch
\* completion does not change the stamp.
C16_StampAtFetchStart ==
    [][/\ HandledStale =>
             /\ lastFetchTimeMS' = clock'
             /\ lastFetchTimeMS' >= NewRequest.at
             /\ NewRequest.at = clock
             /\ FetchStarted
             /\ fetches'[Len(fetches')].status = "inflight"
             /\ fetches'[Len(fetches')].stampMS = lastFetchTimeMS'
       /\ CompletionKeepsStamp]_vars

\* A fetch whose stamp is later than the time compared has completed after
\* the clock moved on, and the stamp is still the one taken at its start.
C16_Witness ==
    \E f \in 1..Len(fetches) :
        /\ fetches[f].status = "done"
        /\ fetches[f].stampMS > requests[fetches[f].request].at
        /\ lastFetchTimeMS = fetches[f].stampMS
        /\ clock > lastFetchTimeMS

----------------------------------------------------------------------------
\* Request r has been handled and has exactly one answer, a 404 for a url
\* other than '/', a 200 for '/'.
AnsweredOnce(r) ==
    /\ r <= Len(requests)
    /\ Len(requests[r].responses) = 1
    /\ requests[r].responses[1].statusCode = IF requests[r].url = "/" THEN 200 ELSE 404

\* C17: no request ever has more than one answer, and, every fetch
\* completing successfully in the end, every request handled comes to have
\* exactly one.
C17_ExactlyOneResponse ==
    /\ [](\A r \in 1..Len(requests) : Len(requests[r].responses) <= 1)
    /\ \A r \in 1..MaxRequests : (r <= Len(requests)) ~> AnsweredOnce(r)

\* Two overlapping fetches and a 404: all three requests have their answer.
C17_Witness ==
    /\ Len(requests) = 3
    /\ Cardinality(StaleRequests) = 2
    /\ requests[2].doneBefore = 0 /\ requests[3].doneBefore = 0
    /\ \A r \in 1..3 : AnsweredOnce(r)

----------------------------------------------------------------------------
\* The completed fetch that was started last.
LastStartedDone ==
    CHOOSE f \in 1..Len(fetches) :
        /\ fetches[f].status = "done"
        /\ \A g \in 1..Len(fetches) : fetches[g].status = "done" => g <= f

\* C18: once a fetch has completed, the cache holds the result of the
\* completed fetch that was started last.
C18_Original ==
    NumDone > 0 =>
        cachedStations = transformFeed(JSONparse(fetches[LastStartedDone].body))

----------------------------------------------------------------------------
\* C19: the time stamp never decreases, never exceeds the clock, and only
\* the stale branch of the request handler changes it.
C19_StampMonotone ==
    /\ [](lastFetchTimeMS <= clock)
    /\ [][clock' >= clock /\ lastFetchTimeMS' >= lastFetchTimeMS]_vars
    /\ [][lastFetchTimeMS' # lastFetchTimeMS => (alive /\ HandledStale)]_vars

\* The stamp was moved twice; a fetch has completed and a request has been
\* answered from the cache since, and the stamp is still the second one.
C19_Witness ==
    /\ Len(fetches) >= 2
    /\ lastFetchTimeMS = fetches[Len(fetches)].stampMS
    /\ lastFetchTimeMS > fetches[1].stampMS
    /\ NumDone > 0
    /\ \E r \in FreshRequests : r > fetches[Len(fetches)].request

----------------------------------------------------------------------------
\* A request to '/' arriving now would take the stale branch.
WouldStartFetch ==
    /\ ENABLED (\E origin \in Origins, d \in HandlerDelays : HandleStale(origin, d))
    /\ ~ENABLED (\E origin \in Origins : HandleFresh(origin))

\* C20: whenever the clock is more than 30000 ms past the time stamp of the
\* last fetch, a request to '/' arriving now starts a fetch, whether that
\* fetch succeeded, failed or is still in flight.
C20_Original ==
    (Len(fetches) > 0 /\ Len(requests) < MaxRequests
        /\ clock > lastFetchTimeMS + 30000) => WouldStartFetch

====
